---------------------------- MODULE Spec2Model ----------------------------
(***************************************************************************)
(* A model of get_RSS.py: the keyword-filtered RSS aggregator.             *)
(*                                                                         *)
(* Text is a sequence of one-character strings.  "^A" stands for the one   *)
(* control character U+0001, which XML 1.0 does not allow.                 *)
(***************************************************************************)
EXTENDS Integers, Sequences, FiniteSets, TLC

VARIABLES
    pc,             \* position of the running call
    arg,            \* match_entry called on its own: its arguments
    ret,            \* match_entry called on its own: its return value
    remote,         \* the remote feeds: url -> what feedparser.parse(url) returns
    localDst,       \* the machine's time zone has daylight saving time
    envJournals,    \* os.environ['RSS_JOURNALS'], or None
    envKeywords,    \* os.environ['RSS_KEYWORDS'], or None
    fileJournals,   \* journals.dat: its text, or None when it does not exist
    fileKeywords,   \* keywords.dat: its text, or None when it does not exist
    clock,          \* the wall clock, in ticks
    outFile,        \* filtered_feed.xml: [exists, bozo, lastBuildDate, items]
    rss_urls,       \* main: rss_urls
    queries,        \* main: queries
    seen_ids,       \* main: seen_ids
    all_entries,    \* main: all_entries
    new_count,      \* main: new_count
    urlIdx,         \* main: position of the for loop over rss_urls
    attempt,        \* parse_rss: the value of attempt in the retry loop
    runs,           \* number of runs of main started
    hist            \* history of the current and the previous run (observations)

vars == <<pc, arg, ret, remote, localDst, envJournals, envKeywords, fileJournals, fileKeywords,
          clock, outFile, rss_urls, queries, seen_ids, all_entries, new_count,
          urlIdx, attempt, runs, hist>>

\* An absent text (an unset variable, a missing file, a key a dict lacks): a
\* sequence that is no text, "None" being no character.
None == <<"None">>
\* An absent struct_time.
NoTime == 0 - 1

-----------------------------------------------------------------------------
(* Python str operations, on sequences of characters.                      *)

\* str.lower() on one character.
LowerChar(c) ==
    CASE c = "A" -> "a"
      [] c = "B" -> "b"
      [] c = "C" -> "c"
      [] c = "D" -> "d"
      [] c = "N" -> "n"
      [] c = "O" -> "o"
      [] c = "T" -> "t"
      [] OTHER -> c

\* str.lower()
Lower(s) == [i \in 1..Len(s) |-> LowerChar(s[i])]

\* The characters str.strip() removes.
IsSpace(c) == c \in {" ", "\n", "\t"}

RECURSIVE LStrip(_)
LStrip(s) == IF s # <<>> /\ IsSpace(Head(s)) THEN LStrip(Tail(s)) ELSE s

RECURSIVE RStrip(_)
RStrip(s) ==
    IF s # <<>> /\ IsSpace(s[Len(s)]) THEN RStrip(SubSeq(s, 1, Len(s) - 1)) ELSE s

\* str.strip()
Strip(s) == RStrip(LStrip(s))

\* str.startswith(p)
StartsWith(s, p) == Len(s) >= Len(p) /\ SubSeq(s, 1, Len(p)) = p

\* Python's  needle in hay  on strings.
RECURSIVE InAt(_, _, _)
InAt(needle, hay, i) ==
    IF i + Len(needle) - 1 > Len(hay) THEN FALSE
    ELSE IF SubSeq(hay, i, i + Len(needle) - 1) = needle THEN TRUE
    ELSE InAt(needle, hay, i + 1)

Contains(needle, hay) == InAt(needle, hay, 1)

\* str.find(sep) from position i, 1-based; 0 when there is none.
RECURSIVE Find(_, _, _)
Find(s, sep, i) ==
    IF i + Len(sep) - 1 > Len(s) THEN 0
    ELSE IF SubSeq(s, i, i + Len(sep) - 1) = sep THEN i
    ELSE Find(s, sep, i + 1)

\* str.split(sep): left to right, non-overlapping, never empty.
RECURSIVE Split(_, _)
Split(s, sep) ==
    LET k == Find(s, sep, 1)
    IN  IF k = 0 THEN <<s>>
        ELSE <<SubSeq(s, 1, k - 1)>> \o Split(SubSeq(s, k + Len(sep), Len(s)), sep)

\* [line.strip() for line in xs]
StripAll(xs) == [i \in 1..Len(xs) |-> Strip(xs[i])]

\* All sequences over S of length at most n.
SeqsUpTo(S, n) == UNION {[1..k -> S] : k \in 0..n}

-----------------------------------------------------------------------------
(* load_config                                                             *)

NonBlank(line) == Strip(line) # <<>>

\* The filter of the file branch: the test for '#' is on the untrimmed line.
FileLineKept(line) == Strip(line) # <<>> /\ ~StartsWith(line, <<"#">>)

\* load_config(filename, env_var_name), given what the environment variable
\* and the file hold (None: unset, or no such file).
load_config(fileText, envText) ==
    IF envText # None /\ envText # <<>>
    THEN IF Contains(<<"\n">>, envText)
         THEN StripAll(SelectSeq(Split(envText, <<"\n">>), NonBlank))
         ELSE StripAll(SelectSeq(Split(envText, <<";">>), NonBlank))
    ELSE IF fileText # None
    THEN StripAll(SelectSeq(Split(fileText, <<"\n">>), FileLineKept))
    ELSE <<>>

-----------------------------------------------------------------------------
(* match_entry                                                             *)

SepNOT == <<" ", "N", "O", "T", " ">>
SepAND == <<" ", "A", "N", "D", " ">>

\* [k.strip().lower() for k in ks]
StripLowerAll(ks) == [i \in 1..Len(ks) |-> Lower(Strip(ks[i]))]

\* for keyword in and_keywords: if keyword not in text: match = False; break
RECURSIVE AllIn(_, _)
AllIn(kws, text) ==
    IF kws = <<>> THEN TRUE
    ELSE IF ~Contains(Head(kws), text) THEN FALSE
    ELSE AllIn(Tail(kws), text)

\* for exclude_kw in exclude_keywords: if exclude_kw in text: excluded = True; break
RECURSIVE AnyIn(_, _)
AnyIn(kws, text) ==
    IF kws = <<>> THEN FALSE
    ELSE IF Contains(Head(kws), text) THEN TRUE
    ELSE AnyIn(Tail(kws), text)

\* QueryAccepts without the check of the excluded keywords.
QueryAccepts_NoExclude(query, text) ==
    LET not_parts == Split(query, SepNOT)
        and_keywords == StripLowerAll(Split(not_parts[1], SepAND))
    IN  AllIn(and_keywords, text)

\* One turn of the loop over queries: TRUE when the query lets the entry in.
QueryAccepts(query, text) ==
    LET not_parts == Split(query, SepNOT)
        and_part == not_parts[1]
        exclude_keywords ==
            IF Len(not_parts) > 1
            THEN StripLowerAll(Tail(not_parts))
            ELSE <<>>
        and_keywords == StripLowerAll(Split(and_part, SepAND))
        match == AllIn(and_keywords, text)
    IN  IF ~match THEN FALSE
        ELSE match /\ ~AnyIn(exclude_keywords, text)

RECURSIVE MatchLoop(_, _)
MatchLoop(text, qs) ==
    IF qs = <<>> THEN FALSE
    ELSE IF QueryAccepts(Head(qs), text) THEN TRUE
    ELSE MatchLoop(text, Tail(qs))

text_to_search(entry) == Lower(entry.title \o <<" ">> \o entry.summary)

match_entry(entry, qs) == MatchLoop(text_to_search(entry), qs)

-----------------------------------------------------------------------------
(* Bounds of the model.                                                    *)

\* Runs of main in one behaviour.
MaxRuns == 3
\* Ticks of the clock in one second: datetime.now() is finer than a pubDate.
TicksPerSec == 2
\* Queries in one direct call of match_entry.
MaxQueries == 2
\* Characters in a configuration text given to load_config on its own.
MaxCfgLen == 3
\* Items of a prior output file given to get_existing_items on its own.
MaxPrior == 2
\* The hour that daylight saving time adds, in the seconds of the model.
DstHour == 1

\* MAX_ITEMS (1000 in the source), scaled down.
MAX_ITEMS == 2
\* One retry more.
Retries_Four == 3 + 1

\* retries, the default of parse_rss.
Retries == 3

-----------------------------------------------------------------------------
(* remove_illegal_xml_chars, convert_struct_time_to_datetime               *)

\* [\x00-\x08\x0b\x0c\x0e-\x1f]
IllegalChar(c) == c = "^A"

LegalChar(c) == ~IllegalChar(c)

remove_illegal_xml_chars(text) ==
    IF text = <<>> THEN <<>> ELSE SelectSeq(text, LegalChar)

\* The dates at which a time zone that has daylight saving time is in it.
Summer == 4 .. 6

\* time.mktime(struct_time): the fields of struct_time read as local time,
\* as seconds.  feedparser gives UTC fields with tm_isdst = 0, which mktime
\* reads as standard time, so the value is relative to the standard offset.
mktime(struct_time) == struct_time

\* datetime.fromtimestamp(seconds): the local wall-clock time, which is
\* DstHour ahead of standard time while daylight saving time is in effect.
fromtimestamp(seconds) ==
    (IF localDst /\ seconds \in Summer THEN seconds + DstHour ELSE seconds)
        * TicksPerSec

\* A struct_time is a whole number of seconds; a datetime is a number of
\* ticks.  now is what datetime.datetime.now() returns at the call.
convert_struct_time_to_datetime(struct_time, now) ==
    IF struct_time = NoTime THEN now ELSE fromtimestamp(mktime(struct_time))

\* Whether the call read the clock.
ReadsClock(struct_time) == struct_time = NoTime

\* dict.get(key, default): a field that holds None is an absent key.
Get(value, default) == IF value = None THEN default ELSE value

\* dict.get(key, default) of a struct_time.
GetTime(value, default) == IF value = NoTime THEN default ELSE value

-----------------------------------------------------------------------------
(* parse_rss                                                               *)

UnknownJournal ==
    <<"U","n","k","n","o","w","n"," ","J","o","u","r","n","a","l">>

\* The body of  for entry in feed.entries : the entries built so far and the
\* clock, which every datetime.now() moves on by a tick.
RECURSIVE BuildEntries(_, _, _, _)
BuildEntries(raw, journal_title, acc, clk) ==
    IF raw = <<>> THEN [entries |-> acc, clock |-> clk]
    ELSE LET entry == Head(raw)
             pub_struct == GetTime(entry.published_parsed, entry.updated_parsed)
             pub_date == convert_struct_time_to_datetime(pub_struct, clk)
             built == [title    |-> Get(entry.title, <<>>),
                       link     |-> Get(entry.link, <<>>),
                       pub_date |-> pub_date,
                       summary  |-> Get(entry.summary, Get(entry.description, <<>>)),
                       journal  |-> journal_title,
                       id       |-> Get(entry.id, Get(entry.link, <<>>)),
                       is_old   |-> FALSE]
         IN  BuildEntries(Tail(raw), journal_title, Append(acc, built),
                          IF ReadsClock(pub_struct) THEN clk + 1 ELSE clk)

\* One attempt of parse_rss that does not raise, on what feedparser returned.
ParseFeed(feed, clk) ==
    BuildEntries(feed.entries, Get(feed.title, UnknownJournal), <<>>, clk)

-----------------------------------------------------------------------------
(* get_existing_items                                                      *)

RECURSIVE ReadItems(_, _, _)
ReadItems(items, acc, clk) ==
    IF items = <<>> THEN [entries |-> acc, clock |-> clk]
    ELSE LET entry == Head(items)
             pub_struct == entry.pubDate
             pub_date == convert_struct_time_to_datetime(pub_struct, clk)
             built == [title    |-> Get(entry.title, <<>>),
                       link     |-> Get(entry.link, <<>>),
                       pub_date |-> pub_date,
                       summary  |-> Get(entry.description, <<>>),
                       journal  |-> Get(entry.author, <<>>),
                       id       |-> Get(entry.guid, Get(entry.link, <<>>)),
                       is_old   |-> TRUE]
         IN  ReadItems(Tail(items), Append(acc, built),
                       IF ReadsClock(pub_struct) THEN clk + 1 ELSE clk)

\* OUTPUT_FILE when it does not exist.
NoFile == [exists |-> FALSE, bozo |-> FALSE, lastBuildDate |-> 0, items |-> <<>>]

\* A file the parser flags (bozo = 1) gets a warning printed, and its entries
\* are read all the same.
get_existing_items(file, clk) ==
    IF ~file.exists THEN [entries |-> <<>>, clock |-> clk]
    ELSE ReadItems(file.items, <<>>, clk)

-----------------------------------------------------------------------------
(* generate_rss_xml                                                        *)

\* InsertDesc with an entry put before those of its pub_date: a sort that is
\* not stable.
RECURSIVE InsertDesc_Unstable(_, _)
InsertDesc_Unstable(x, s) ==
    IF s = <<>> THEN <<x>>
    ELSE IF Head(s).pub_date > x.pub_date
    THEN <<Head(s)>> \o InsertDesc_Unstable(x, Tail(s))
    ELSE <<x>> \o s

\* list.sort(key = pub_date, reverse = True): stable, so entries of one
\* pub_date keep their order.
RECURSIVE InsertDesc(_, _)
InsertDesc(x, s) ==
    IF s = <<>> THEN <<x>>
    ELSE IF Head(s).pub_date >= x.pub_date THEN <<Head(s)>> \o InsertDesc(x, Tail(s))
    ELSE <<x>> \o s

RECURSIVE SortDesc(_, _)
SortDesc(items, acc) ==
    IF items = <<>> THEN acc
    ELSE SortDesc(Tail(items), InsertDesc(Head(items), acc))

\* Truncate keeping the end of the list: items[-MAX_ITEMS:].
Truncate_Tail(items) ==
    IF Len(items) > MAX_ITEMS
    THEN SubSeq(items, Len(items) - MAX_ITEMS + 1, Len(items))
    ELSE items

\* items[:MAX_ITEMS]
Truncate(items) ==
    IF Len(items) > MAX_ITEMS THEN SubSeq(items, 1, MAX_ITEMS) ELSE items

\* f"[{item['journal']}] {item['title']}"
Prefixed(journal, title) == <<"[">> \o journal \o <<"]", " ">> \o title

\* OutputTitle without the test of is_old.
OutputTitle_Always(item) == Prefixed(item.journal, item.title)

OutputTitle(item) ==
    IF ~item.is_old THEN Prefixed(item.journal, item.title) ELSE item.title

\* A pubDate is written to the second.
FormatDate(pub_date) == pub_date \div TicksPerSec

\* The Item made of one entry, as the file holds it.
RssItem(item) ==
    [title       |-> remove_illegal_xml_chars(OutputTitle(item)),
     link        |-> item.link,
     description |-> remove_illegal_xml_chars(item.summary),
     author      |-> remove_illegal_xml_chars(item.journal),
     guid        |-> item.id,
     pubDate     |-> FormatDate(item.pub_date)]

\* The file generate_rss_xml writes for items, with the clock at now.
generate_rss_xml(items, now) ==
    LET kept == Truncate(SortDesc(items, <<>>))
    IN  [exists        |-> TRUE,
         bozo          |-> FALSE,
         lastBuildDate |-> FormatDate(now),
         items         |-> [i \in 1..Len(kept) |-> RssItem(kept[i])]]

-----------------------------------------------------------------------------
(* main: the loop over the fetched entries of one journal                  *)

\* MergeFetched without the test of seen_ids.
RECURSIVE MergeFetched_NoSeen(_, _, _, _)
MergeFetched_NoSeen(fetched, qs, seen, acc) ==
    IF fetched = <<>> THEN [seen_ids |-> seen, all_entries |-> acc.all, new_count |-> acc.n]
    ELSE LET entry == Head(fetched)
         IN  IF match_entry(entry, qs)
             THEN MergeFetched_NoSeen(Tail(fetched), qs, seen \cup {entry.id},
                                      [all |-> Append(acc.all, entry), n |-> acc.n + 1])
             ELSE MergeFetched_NoSeen(Tail(fetched), qs, seen, acc)

\* MergeFetched recording the id of every entry it looks at, matching or not.
RECURSIVE MergeFetched_SeenOnMiss(_, _, _, _)
MergeFetched_SeenOnMiss(fetched, qs, seen, acc) ==
    IF fetched = <<>> THEN [seen_ids |-> seen, all_entries |-> acc.all, new_count |-> acc.n]
    ELSE LET entry == Head(fetched)
         IN  IF entry.id \in seen
             THEN MergeFetched_SeenOnMiss(Tail(fetched), qs, seen, acc)
             ELSE IF match_entry(entry, qs)
             THEN MergeFetched_SeenOnMiss(Tail(fetched), qs, seen \cup {entry.id},
                                          [all |-> Append(acc.all, entry), n |-> acc.n + 1])
             ELSE MergeFetched_SeenOnMiss(Tail(fetched), qs, seen \cup {entry.id}, acc)

\* The state of the merge: seen_ids, all_entries, new_count.
RECURSIVE MergeFetched(_, _, _, _)
MergeFetched(fetched, qs, seen, acc) ==
    IF fetched = <<>> THEN [seen_ids |-> seen, all_entries |-> acc.all, new_count |-> acc.n]
    ELSE LET entry == Head(fetched)
         IN  IF entry.id \in seen
             THEN MergeFetched(Tail(fetched), qs, seen, acc)
             ELSE IF match_entry(entry, qs)
             THEN MergeFetched(Tail(fetched), qs, seen \cup {entry.id},
                               [all |-> Append(acc.all, entry), n |-> acc.n + 1])
             ELSE MergeFetched(Tail(fetched), qs, seen, acc)

-----------------------------------------------------------------------------
(* The world: the remote feeds and the configuration sources.              *)

\* A feedparser entry; a field that holds None (NoTime) is a key it lacks.
RawEntry(title, link, summary, description, id, published, updated) ==
    [title |-> title, link |-> link, summary |-> summary,
     description |-> description, id |-> id,
     published_parsed |-> published, updated_parsed |-> updated]

Url1 == <<"1">>
Url2 == <<"2">>

\* The feeds, for the publish dates d1, d3 of two of their entries.  Two
\* entries share the id x; one has no id and falls back to its link, and has
\* no date; one has only an updated date; a title and a journal title hold a
\* control character.
Feeds(d1, d3) ==
    (Url1 :> [title |-> <<"N">>,
              entries |-> << RawEntry(<<"a">>, <<"l">>, None, <<"c">>, <<"x">>, d1, NoTime),
                             RawEntry(<<"a", "^A", "b">>, <<"y">>, <<>>, None, None, NoTime, NoTime) >>])
    @@
    (Url2 :> [title |-> <<"S", "^A">>,
              entries |-> << RawEntry(<<"b">>, <<"m">>, <<"d">>, None, <<"z">>, d3, NoTime),
                             RawEntry(<<"B", " ", "a">>, <<"k">>, <<>>, None, <<"x">>, NoTime, 5) >>])

\* No entry has a date but the last, or every entry but one has.
Worlds == {Feeds(NoTime, NoTime), Feeds(4, 3)}

\* What feedparser.parse(url) returns when it does not raise: a url that
\* names no feed gives no title and no entries.
Fetch(url) ==
    IF url \in DOMAIN remote THEN remote[url] ELSE [title |-> None, entries |-> <<>>]

EnvJournalsChoices == {None, <<"2", ";", "1">>}
FileJournalsChoices == {None, <<"1", "\n", "2", "\n">>}
EnvKeywordsChoices == {None, <<"a", " ", "N", "O", "T", " ", "b">>}
FileKeywordsChoices == {None, <<"#", "c", "\n", "a", "\n", "B">>}

\* The clock when the first run starts: later than the feeds' dates.
StartClock == 10 * TicksPerSec

-----------------------------------------------------------------------------
(* Observations of a run, kept for the properties.                         *)

NoPrev == [valid |-> FALSE, items |-> <<>>, rss_urls |-> <<>>, queries |-> <<>>,
           ok |-> {}, aggLen |-> 0]

\* What the finished run leaves for the next one to be compared with.
Summary ==
    IF pc = "done" /\ hist.wrote
    THEN [valid |-> TRUE, items |-> outFile.items, rss_urls |-> rss_urls,
          queries |-> queries,
          ok |-> {hist.calls[i].url : i \in {j \in 1..Len(hist.calls) : hist.calls[j].ok}},
          aggLen |-> Len(all_entries)]
    ELSE NoPrev

NewHist(prev, file) ==
    [startFile |-> file,     \* OUTPUT_FILE when the run started
     parses    |-> 0,        \* calls of feedparser.parse(url) in the current parse_rss
     calls     |-> <<>>,     \* the calls of parse_rss that returned
     readPrior |-> FALSE,    \* get_existing_items was called
     old       |-> <<>>,     \* what it returned
     wrote     |-> FALSE,    \* generate_rss_xml wrote the file
     prev      |-> prev]

-----------------------------------------------------------------------------
(* main                                                                    *)

Init ==
    /\ pc = "idle"
    /\ arg = None
    /\ ret = FALSE
    /\ remote \in Worlds
    /\ localDst \in BOOLEAN
    /\ envJournals \in EnvJournalsChoices
    /\ fileJournals \in FileJournalsChoices
    /\ envKeywords \in EnvKeywordsChoices
    /\ fileKeywords \in FileKeywordsChoices
    /\ clock = StartClock
    /\ outFile = NoFile
    /\ rss_urls = <<>>
    /\ queries = <<>>
    /\ seen_ids = {}
    /\ all_entries = <<>>
    /\ new_count = 0
    /\ urlIdx = 1
    /\ attempt = 0
    /\ runs = 0
    /\ hist = NewHist(NoPrev, NoFile)

\* Between two runs the user edits a source of the keyword list.
EditConfig ==
    /\ pc = "done"
    /\ runs < MaxRuns
    /\ \/ envKeywords' \in EnvKeywordsChoices /\ UNCHANGED fileKeywords
       \/ fileKeywords' \in FileKeywordsChoices /\ UNCHANGED envKeywords
    /\ UNCHANGED <<envJournals, fileJournals>>
    /\ UNCHANGED <<pc, arg, ret, remote, localDst, clock, outFile, rss_urls, queries, seen_ids,
                   all_entries, new_count, urlIdx, attempt, runs, hist>>

\* ConfigMissing with and for or.
ConfigMissing_Both(urls, qs) == urls = <<>> /\ qs = <<>>

\* if not rss_urls or not queries
ConfigMissing(urls, qs) == urls = <<>> \/ qs = <<>>

\* main is started: it loads the two configurations and returns when one is empty.
Main_Load ==
    /\ pc \in {"idle", "done"}
    /\ runs < MaxRuns
    /\ runs' = runs + 1
    /\ rss_urls' = load_config(fileJournals, envJournals)
    /\ queries' = load_config(fileKeywords, envKeywords)
    /\ pc' = IF ConfigMissing(rss_urls', queries') THEN "done" ELSE "existing"
    /\ hist' = NewHist(Summary, outFile)
    /\ seen_ids' = {}
    /\ all_entries' = <<>>
    /\ new_count' = 0
    /\ urlIdx' = 1
    /\ attempt' = 0
    /\ UNCHANGED <<arg, ret, remote, localDst, envJournals, envKeywords, fileJournals,
                   fileKeywords, clock, outFile>>

\* existing_entries = get_existing_items(), seen_ids, all_entries, new_count.
Main_Existing ==
    /\ pc = "existing"
    /\ LET got == get_existing_items(outFile, clock)
       IN  /\ seen_ids' = {got.entries[i].id : i \in 1..Len(got.entries)}
           /\ all_entries' = got.entries
           /\ clock' = got.clock
           /\ hist' = [hist EXCEPT !.readPrior = TRUE, !.old = got.entries]
    /\ new_count' = 0
    /\ urlIdx' = 1
    /\ attempt' = 0
    /\ pc' = "fetch"
    /\ UNCHANGED <<arg, ret, remote, localDst, envJournals, envKeywords, fileJournals,
                   fileKeywords, outFile, rss_urls, queries, runs>>

\* One attempt of parse_rss(rss_urls[urlIdx]) raises: the error is printed,
\* the call sleeps, and after the last attempt it returns [].
ParseRss_Raise ==
    /\ pc = "fetch"
    /\ urlIdx <= Len(rss_urls)
    /\ attempt < Retries
    /\ IF attempt + 1 < Retries
       THEN /\ attempt' = attempt + 1
            /\ hist' = [hist EXCEPT !.parses = @ + 1]
            /\ UNCHANGED urlIdx
       ELSE /\ attempt' = 0
            /\ urlIdx' = urlIdx + 1
            /\ hist' = [hist EXCEPT
                   !.parses = 0,
                   !.calls = Append(@, [url |-> rss_urls[urlIdx], ok |-> FALSE,
                                        parses |-> hist.parses + 1, entries |-> <<>>])]
    /\ UNCHANGED <<pc, arg, ret, remote, localDst, envJournals, envKeywords, fileJournals,
                   fileKeywords, clock, outFile, rss_urls, queries, seen_ids,
                   all_entries, new_count, runs>>

\* One attempt of parse_rss(rss_urls[urlIdx]) succeeds: it returns the entries,
\* and main merges those that are new and match.
ParseRss_Return ==
    /\ pc = "fetch"
    /\ urlIdx <= Len(rss_urls)
    /\ attempt < Retries
    /\ LET got == ParseFeed(Fetch(rss_urls[urlIdx]), clock)
           m == MergeFetched(got.entries, queries, seen_ids,
                             [all |-> all_entries, n |-> new_count])
       IN  /\ seen_ids' = m.seen_ids
           /\ all_entries' = m.all_entries
           /\ new_count' = m.new_count
           /\ clock' = got.clock
           /\ hist' = [hist EXCEPT
                  !.parses = 0,
                  !.calls = Append(@, [url |-> rss_urls[urlIdx], ok |-> TRUE,
                                       parses |-> hist.parses + 1,
                                       entries |-> got.entries])]
    /\ attempt' = 0
    /\ urlIdx' = urlIdx + 1
    /\ UNCHANGED <<pc, arg, ret, remote, localDst, envJournals, envKeywords, fileJournals,
                   fileKeywords, outFile, rss_urls, queries, runs>>

\* After the last journal: generate_rss_xml(all_entries).
Main_Write ==
    /\ pc = "fetch"
    /\ urlIdx > Len(rss_urls)
    /\ outFile' = generate_rss_xml(all_entries, clock)
    /\ all_entries' = SortDesc(all_entries, <<>>)     \* items.sort sorts main's list
    /\ clock' = clock + 1
    /\ hist' = [hist EXCEPT !.wrote = TRUE]
    /\ pc' = "done"
    /\ UNCHANGED <<arg, ret, remote, localDst, envJournals, envKeywords, fileJournals,
                   fileKeywords, rss_urls, queries, seen_ids, new_count,
                   urlIdx, attempt, runs>>

Next ==
    \/ EditConfig
    \/ Main_Load
    \/ Main_Existing
    \/ ParseRss_Raise
    \/ ParseRss_Return
    \/ Main_Write

Spec == Init /\ [][Next]_vars

\* main runs to its end: no step of it waits for anything but itself (a
\* sleep ends, a call of feedparser.parse returns or raises).  The runs of
\* one configuration, over feeds of which some entries have no date.
InitFair ==
    /\ Init
    /\ remote = Feeds(4, 3)
    /\ envKeywords = None
    /\ fileKeywords # None

MainStep ==
    \/ Main_Load
    \/ Main_Existing
    \/ ParseRss_Raise
    \/ ParseRss_Return
    \/ Main_Write

FairSpec == InitFair /\ [][MainStep]_vars /\ WF_vars(MainStep)

-----------------------------------------------------------------------------
(* match_entry, called on its own                                          *)

MatchTitles == { <<>>, <<"A">>, <<"a", "b">> }
MatchSummaries == { <<>>, <<"b">>, <<"c", " ", "N", "O", "T">>, <<"B", "c">> }
MatchQueries ==
    { <<"A">>,
      <<"a", " ", "A", "N", "D", " ", "B">>,
      <<"a", " ", "N", "O", "T", " ", "c">>,
      <<>>,
      <<"b", " ", "N", "O", "T", " ", " ">>,
      <<"a", " ", "b">>,
      <<"c", " ", "N", "O", "T", " ", "n", "o", "t">>,
      <<" ", "N", "O", "T", " ", "a">> }

\* The variables of main, at rest.
AtRest ==
    /\ remote = Feeds(4, 3)
    /\ localDst = FALSE
    /\ envJournals = None
    /\ fileJournals = None
    /\ envKeywords = None
    /\ fileKeywords = None
    /\ clock = StartClock
    /\ outFile = NoFile
    /\ rss_urls = <<>>
    /\ queries = <<>>
    /\ seen_ids = {}
    /\ all_entries = <<>>
    /\ new_count = 0
    /\ urlIdx = 1
    /\ attempt = 0
    /\ runs = 0
    /\ hist = NewHist(NoPrev, NoFile)

InitMatch ==
    /\ pc = "call"
    /\ arg \in [entry : [title : MatchTitles, summary : MatchSummaries],
                queries : SeqsUpTo(MatchQueries, MaxQueries)]
    /\ ret = FALSE
    /\ AtRest

Call_match_entry ==
    /\ pc = "call"
    /\ ret' = match_entry(arg.entry, arg.queries)
    /\ pc' = "ret"
    /\ UNCHANGED <<arg, remote, localDst, envJournals, envKeywords, fileJournals, fileKeywords,
                   clock, outFile, rss_urls, queries, seen_ids, all_entries,
                   new_count, urlIdx, attempt, runs, hist>>

NextMatch == Call_match_entry

SpecMatch == InitMatch /\ [][NextMatch]_vars

-----------------------------------------------------------------------------
(* load_config, as main calls it for the journal list, on any two sources  *)

CfgChars == {"a", "#", " ", "\n", ";"}
CfgTexts == SeqsUpTo(CfgChars, MaxCfgLen)

InitConfig ==
    /\ pc = "idle"
    /\ arg = None
    /\ ret = FALSE
    /\ remote = Feeds(4, 3)
    /\ localDst = FALSE
    /\ envJournals \in CfgTexts \cup {None}
    /\ fileJournals \in CfgTexts \cup {None}
    /\ envKeywords = None
    /\ fileKeywords = <<"a">>
    /\ clock = StartClock
    /\ outFile = NoFile
    /\ rss_urls = <<>>
    /\ queries = <<>>
    /\ seen_ids = {}
    /\ all_entries = <<>>
    /\ new_count = 0
    /\ urlIdx = 1
    /\ attempt = 0
    /\ runs = 0
    /\ hist = NewHist(NoPrev, NoFile)

NextConfig == Main_Load

SpecConfig == InitConfig /\ [][NextConfig]_vars

-----------------------------------------------------------------------------
(* get_existing_items, as main calls it, on any prior output file          *)

PriorItem(title, guid, link, pubDate) ==
    [title |-> title, link |-> link, description |-> <<"c">>, author |-> <<"N">>,
     guid |-> guid, pubDate |-> pubDate]

PriorItems ==
    { PriorItem(<<"[", "N", "]", " ", "a">>, <<"x">>, <<"l">>, 4),
      PriorItem(<<"[", "N", "]", " ", "b">>, <<"y">>, <<"y">>, 3),
      PriorItem(<<"[", "N", "]", " ", "b">>, None, <<"z">>, 3),
      PriorItem(None, <<"x">>, None, NoTime),
      PriorItem(<<"a">>, None, None, 9) }

PriorFiles ==
    {NoFile} \cup
    { [exists |-> TRUE, bozo |-> b, lastBuildDate |-> 9, items |-> its] :
          b \in BOOLEAN, its \in SeqsUpTo(PriorItems, MaxPrior) }

InitReader ==
    /\ pc = "existing"
    /\ arg = None
    /\ ret = FALSE
    /\ remote = Feeds(4, 3)
    /\ localDst \in BOOLEAN
    /\ envJournals = None
    /\ fileJournals = <<"1">>
    /\ envKeywords = None
    /\ fileKeywords = <<"a">>
    /\ clock = StartClock
    /\ outFile \in PriorFiles
    /\ rss_urls = <<Url1>>
    /\ queries = << <<"a">> >>
    /\ seen_ids = {}
    /\ all_entries = <<>>
    /\ new_count = 0
    /\ urlIdx = 1
    /\ attempt = 0
    /\ runs = 1
    /\ hist = NewHist(NoPrev, outFile)

NextReader == Main_Existing

SpecReader == InitReader /\ [][NextReader]_vars

-----------------------------------------------------------------------------
(* Properties.                                                             *)

Range(s) == {s[i] : i \in 1..Len(s)}

Done == pc = "done" /\ hist.wrote

\* The ids of the entries read from the prior output in this run.
OldIds == {hist.old[i].id : i \in 1..Len(hist.old)}

RECURSIVE FlattenCalls(_)
FlattenCalls(calls) ==
    IF calls = <<>> THEN <<>> ELSE Head(calls).entries \o FlattenCalls(Tail(calls))

\* Every entry parse_rss returned in this run, in the order main saw them.
Fetched == FlattenCalls(hist.calls)

\* The urls parse_rss fetched in this run.
OkNow == {hist.calls[i].url : i \in {j \in 1..Len(hist.calls) : hist.calls[j].ok}}

-----------------------------------------------------------------------------
\* C1: match_entry(entry, queries) is true exactly when some query q has every
\* trimmed lower-cased AND-term (q split on ' NOT ', its first segment split on
\* ' AND ') in the lower-cased text of title and summary and none of its
\* trimmed lower-cased NOT-terms in it; it is false for no queries.
C1_Text(entry) == Lower(entry.title) \o <<" ">> \o Lower(entry.summary)

C1_QueryHolds(q, text) ==
    LET parts == Split(q, SepNOT)
        ands == Split(parts[1], SepAND)
    IN  /\ \A k \in 1..Len(ands) : Contains(Lower(Strip(ands[k])), text)
        /\ \A j \in 2..Len(parts) : ~Contains(Lower(Strip(parts[j])), text)

C1_MatchIff ==
    pc = "ret" =>
        (ret <=> \E i \in 1..Len(arg.queries) :
                     C1_QueryHolds(arg.queries[i], C1_Text(arg.entry)))

\* A call that returns true by its second query, which has a NOT-term, the
\* first query having an AND-term that is missing.
C1_Witness ==
    /\ pc = "ret"
    /\ ret
    /\ Len(arg.queries) = 2
    /\ Len(Split(arg.queries[1], SepAND)) > 1
    /\ ~C1_QueryHolds(arg.queries[1], C1_Text(arg.entry))
    /\ Len(Split(arg.queries[2], SepNOT)) > 1

-----------------------------------------------------------------------------
\* C2: a fetched entry whose id is the id of an entry read from the prior
\* output is never added to the aggregate, and no two items of the written
\* feed have the same id.
C2_Dedup ==
    /\ \A i \in 1..Len(all_entries) :
           ~all_entries[i].is_old => all_entries[i].id \notin OldIds
    /\ \A i, j \in 1..Len(outFile.items) :
           i # j => outFile.items[i].guid # outFile.items[j].guid

\* A run wrote a full feed although a fetched entry that matches had the id of
\* an old entry.
C2_Witness ==
    /\ Done
    /\ Len(outFile.items) = MAX_ITEMS
    /\ \E k \in 1..Len(Fetched) :
           Fetched[k].id \in OldIds /\ match_entry(Fetched[k], queries)

-----------------------------------------------------------------------------
\* C3: generate_rss_xml writes min(n, MAX_ITEMS) items of the n entries of the
\* aggregate, by pub_date descending, and every written entry is at least as
\* recent as every dropped one.
C3_Truncation ==
    Done =>
        LET n == Len(all_entries)
            items == outFile.items
            written == {items[i].guid : i \in 1..Len(items)}
        IN  /\ Len(items) = IF n < MAX_ITEMS THEN n ELSE MAX_ITEMS
            /\ Cardinality(written) = Len(items)
            /\ \A i \in 1..Len(items) : \E k \in 1..n :
                   /\ all_entries[k].id = items[i].guid
                   /\ items[i].pubDate = FormatDate(all_entries[k].pub_date)
            /\ \A i, j \in 1..Len(items) : \A k, l \in 1..n :
                   (/\ i < j
                    /\ all_entries[k].id = items[i].guid
                    /\ all_entries[l].id = items[j].guid)
                   => all_entries[k].pub_date >= all_entries[l].pub_date
            /\ \A k, l \in 1..n :
                   (all_entries[k].id \in written /\ all_entries[l].id \notin written)
                   => all_entries[k].pub_date >= all_entries[l].pub_date

\* A run dropped an entry older than one it wrote.
C3_Witness ==
    /\ Done
    /\ Len(all_entries) > MAX_ITEMS
    /\ \E k, l \in 1..Len(all_entries) :
           all_entries[k].pub_date > all_entries[l].pub_date

-----------------------------------------------------------------------------
\* C4 as stated: a run that follows a run with the same journal list, the same
\* queries and the same feeds writes the same items in the same order, for
\* every input.
C4_SameConfig ==
    /\ hist.prev.valid
    /\ hist.prev.rss_urls = rss_urls
    /\ hist.prev.queries = queries

-----------------------------------------------------------------------------
\* C5: with an empty journal list or keyword list the run ends with no fetch
\* attempt, no read of the prior output and no write: the file is unchanged.
C5_EmptyConfigAborts ==
    (runs > 0 /\ (rss_urls = <<>> \/ queries = <<>>)) =>
        /\ pc = "done"
        /\ hist.parses = 0
        /\ hist.calls = <<>>
        /\ ~hist.readPrior
        /\ ~hist.wrote
        /\ outFile = hist.startFile

\* A run that found no keywords, the journals and an output file being there.
C5_Witness ==
    /\ pc = "done"
    /\ runs > 1
    /\ queries = <<>>
    /\ rss_urls # <<>>
    /\ outFile.exists
    /\ outFile.items # <<>>

-----------------------------------------------------------------------------
\* C6: parse_rss makes at most 3 attempts for a journal, returns the entries
\* of the first attempt that succeeds, returns [] when all 3 fail; main goes
\* on with the journals in their order and always comes to write the feed.
C6_Safe ==
    /\ hist.parses < 3
    /\ \A i \in 1..Len(hist.calls) :
           LET c == hist.calls[i]
               raw == Fetch(c.url).entries
           IN  /\ c.url = rss_urls[i]
               /\ c.parses \in 1..3
               /\ ~c.ok => (c.parses = 3 /\ c.entries = <<>>)
               /\ c.ok => /\ Len(c.entries) = Len(raw)
                          /\ \A k \in 1..Len(raw) :
                                 /\ c.entries[k].title = raw[k].title
                                 /\ c.entries[k].link = raw[k].link
    /\ pc = "fetch" => Len(hist.calls) = urlIdx - 1
    /\ Done => Len(hist.calls) = Len(rss_urls)

C6_BoundedRetry ==
    /\ []C6_Safe
    /\ (pc = "existing") ~> Done

\* A run wrote the feed after its first journal failed 3 times and its second
\* one came at the second attempt.
C6_Witness ==
    /\ Done
    /\ Len(hist.calls) = 2
    /\ ~hist.calls[1].ok
    /\ hist.calls[2].ok
    /\ hist.calls[2].parses = 2
    /\ hist.calls[2].entries # <<>>

-----------------------------------------------------------------------------
\* C7 as stated: an item of the written feed has the title '[J] T' of an
\* entry of journal J with title T and its id, and an item recovered from the
\* prior output is written with the title it had there.
C7_Sources(guid) ==
    UNION { { [journal |-> Get(remote[u].title, UnknownJournal),
               title |-> Get(remote[u].entries[k].title, <<>>)] :
                 k \in { n \in 1..Len(remote[u].entries) :
                           Get(remote[u].entries[n].id,
                               Get(remote[u].entries[n].link, <<>>)) = guid } } :
            u \in DOMAIN remote }

C7_Recovered ==
    Done => \A i \in 1..Len(outFile.items) : \A k \in 1..Len(hist.startFile.items) :
                outFile.items[i].guid = hist.startFile.items[k].guid
                => outFile.items[i].title = hist.startFile.items[k].title

C7_Original ==
    /\ \A i \in 1..Len(outFile.items) :
           \E p \in C7_Sources(outFile.items[i].guid) :
               outFile.items[i].title = Prefixed(p.journal, p.title)
    /\ C7_Recovered

\* C7 as amended: the title is '[J] T' without the control characters that
\* remove_illegal_xml_chars removes, and stays so in every later run.
C7_PrefixedOnce ==
    /\ \A i \in 1..Len(outFile.items) :
           \E p \in C7_Sources(outFile.items[i].guid) :
               outFile.items[i].title = remove_illegal_xml_chars(Prefixed(p.journal, p.title))
    /\ C7_Recovered

\* The third run wrote an item it recovered, which the second had recovered.
C7_Witness ==
    /\ Done
    /\ runs = 3
    /\ hist.prev.valid
    /\ \E i \in 1..Len(outFile.items) :
           /\ \E k \in 1..Len(hist.startFile.items) :
                  hist.startFile.items[k].guid = outFile.items[i].guid
           /\ \E k \in 1..Len(hist.prev.items) :
                  hist.prev.items[k].guid = outFile.items[i].guid
           /\ outFile.items[i].guid = <<"z">>

-----------------------------------------------------------------------------
\* C8: a prior output the parser flags as not well-formed gives no old entry:
\* get_existing_items returns [] and no id of the file is in seen_ids.
C8_MalformedIgnored ==
    (pc = "fetch" /\ outFile.exists /\ outFile.bozo) =>
        /\ hist.old = <<>>
        /\ all_entries = <<>>
        /\ seen_ids = {}

-----------------------------------------------------------------------------
\* C9: load_config returns, in source order, the lines of the environment
\* variable (when it is set and not empty) or else of the file, trimmed, those
\* left out that are empty or begin with '#'; [] when there is neither.
C9_Lines ==
    IF envJournals # None /\ envJournals # <<>>
    THEN IF Contains(<<"\n">>, envJournals)
         THEN Split(envJournals, <<"\n">>)
         ELSE Split(envJournals, <<";">>)
    ELSE IF fileJournals # None THEN Split(fileJournals, <<"\n">>)
    ELSE <<>>

C9_Wanted(line) == line # <<>> /\ Head(line) # "#"

C9_LoadConfig ==
    pc # "idle" => rss_urls = SelectSeq(StripAll(C9_Lines), C9_Wanted)

-----------------------------------------------------------------------------
\* C10: for an id that is no old entry's id the aggregate holds the first
\* fetched entry of that id that matches, and nothing else of that id; only
\* the ids of the entries added are recorded; new_count counts them.
C10_FirstMatch(id) ==
    LET hits == {k \in 1..Len(Fetched) :
                    Fetched[k].id = id /\ match_entry(Fetched[k], queries)}
    IN  IF hits = {} THEN <<>>
        ELSE <<Fetched[CHOOSE k \in hits : \A m \in hits : k <= m]>>

C10_WithId(id) ==
    LET Has(e) == e.id = id IN SelectSeq(all_entries, Has)

C10_MergeRule ==
    (pc = "fetch" \/ Done) =>
        /\ \A id \in ({Fetched[k].id : k \in 1..Len(Fetched)}
                      \cup {all_entries[k].id : k \in 1..Len(all_entries)}) \ OldIds :
               C10_WithId(id) = C10_FirstMatch(id)
        /\ seen_ids = {all_entries[k].id : k \in 1..Len(all_entries)}
        /\ new_count = Len(all_entries) - Len(hist.old)

\* A run added the second fetched entry of an id, the first one not matching.
C10_Witness ==
    /\ Done
    /\ new_count > 0
    /\ \E k, l \in 1..Len(Fetched) :
           /\ k < l
           /\ Fetched[k].id = Fetched[l].id
           /\ Fetched[k].id \notin OldIds
           /\ ~match_entry(Fetched[k], queries)
           /\ match_entry(Fetched[l], queries)

=============================================================================
